---- MODULE Spec2Model ----
(***************************************************************************)
(* A model of go-persona, a Mozilla Persona identity provider: the signing *)
(* key (private_key.go), the identity certificate issuer                   *)
(* (identity_certificate.go), the SQLite session backing                   *)
(* (session_sqlite.go, session.go), the support document                   *)
(* (support_document.go) and the HTTP handlers (persona.go).               *)
(*                                                                         *)
(* Text is modelled as sequences of byte values (ASCII codes), so that the *)
(* JSON and base64 layers are computed the way the Go code computes them.  *)
(***************************************************************************)
EXTENDS Integers, Sequences, FiniteSets, TLC

VARIABLES
    privateKey,      \* var privateKey *PrivateKey
    sessionBacking,  \* var sessionBacking SessionBacking (nil or the SQLiteBacking)
    b,               \* the SQLiteBacking struct: DB, newSessionStmt, hasSessionStmt
    conns,           \* every *sql.DB handle sql.Open has returned so far
    table,           \* the rows of the sessions table in the database file
    now,             \* the wall clock: seconds and nanoseconds within the second
    supportDocJson,  \* var supportDocJson []byte
    ret,             \* what the last call returned (or that it panicked)
    calls            \* per goroutine: the call it is in, its position, its result

vars == <<privateKey, sessionBacking, b, conns, table, now, supportDocJson, ret, calls>>

----------------------------------------------------------------------------
(* Bounds of the model.                                                    *)

\* the clock runs over the seconds 1..MaxSec
MaxSec == 2
\* sql.Open is called at most MaxOpens times in a behaviour
MaxOpens == 2

----------------------------------------------------------------------------
(* Sequences of bytes.                                                     *)

Min(x, y) == IF x < y THEN x ELSE y

RECURSIVE Itoa(_)
\* fmt "%d" of an integer, as ASCII bytes
Itoa(n) ==
    IF n < 0 THEN <<45>> \o Itoa(0 - n)
    ELSE IF n < 10 THEN <<48 + n>>
    ELSE Itoa(n \div 10) \o <<48 + (n % 10)>>

\* strings.ToLower on ASCII bytes (the case folding of an email)
ToLower(s) == [i \in 1..Len(s) |-> IF s[i] >= 65 /\ s[i] <= 90 THEN s[i] + 32 ELSE s[i]]

DOT == 46
NEWLINE == 10

----------------------------------------------------------------------------
(* encoding/base64, URLEncoding, as a streaming encoder over a buffer.     *)

\* the URL-safe alphabet: A-Z a-z 0-9 - _
B64Char(v) ==
    IF v < 26 THEN 65 + v
    ELSE IF v < 52 THEN 97 + (v - 26)
    ELSE IF v < 62 THEN 48 + (v - 52)
    ELSE IF v = 62 THEN 45 ELSE 95

\* the value of a base64url character, -1 for a byte outside the alphabet
B64Val(c) ==
    IF c >= 65 /\ c <= 90 THEN c - 65
    ELSE IF c >= 97 /\ c <= 122 THEN c - 97 + 26
    ELSE IF c >= 48 /\ c <= 57 THEN c - 48 + 52
    ELSE IF c = 45 THEN 62
    ELSE IF c = 95 THEN 63 ELSE -1

\* the k-th (0..3) character of the group encoding the bytes b0 b1 b2
B64Sextet(b0, b1, b2, k) ==
    IF k = 0 THEN b0 \div 4
    ELSE IF k = 1 THEN (b0 % 4) * 16 + (b1 \div 16)
    ELSE IF k = 2 THEN (b1 % 16) * 4 + (b2 \div 64)
    ELSE b2 % 64

\* Encoding.Encode of a whole number of 3-byte groups
B64EncodeGroups(p) ==
    [i \in 1..(4 * (Len(p) \div 3)) |->
        LET g == (i - 1) \div 4
            k == (i - 1) % 4
        IN  B64Char(B64Sextet(p[3 * g + 1], p[3 * g + 2], p[3 * g + 3], k))]

\* encoder.Write: the bytes buffered from earlier writes are completed first,
\* whole groups are encoded to the underlying writer, and the 0..2 bytes
\* left over stay in the encoder until the next Write or Close.
EncoderWriteAll(out, all) ==
    [buf |-> SubSeq(all, 3 * (Len(all) \div 3) + 1, Len(all)),
     out |-> out \o B64EncodeGroups(SubSeq(all, 1, 3 * (Len(all) \div 3)))]

EncoderWrite(buf, out, p) == EncoderWriteAll(out, buf \o p)

\* the value of the j-th character of s, 0 past its end
B64ValAt(s, j) == IF j <= Len(s) THEN B64Val(s[j]) ELSE 0

\* base64url decoding of an unpadded segment (RawURLEncoding): every four
\* characters give three bytes, a tail of two or three gives one or two
B64Decode(s) ==
    [i \in 1..(3 * (Len(s) \div 4)
                + (IF Len(s) % 4 = 0 THEN 0 ELSE (Len(s) % 4) - 1)) |->
        LET g  == (i - 1) \div 3
            k  == (i - 1) % 3
        IN  IF k = 0 THEN B64ValAt(s, 4 * g + 1) * 4 + (B64ValAt(s, 4 * g + 2) \div 16)
            ELSE IF k = 1
                THEN (B64ValAt(s, 4 * g + 2) % 16) * 16 + (B64ValAt(s, 4 * g + 3) \div 4)
            ELSE (B64ValAt(s, 4 * g + 3) % 4) * 64 + B64ValAt(s, 4 * g + 4)]

\* s is the unpadded base64url encoding of some bytes
ValidBase64Url(s) ==
    /\ Len(s) % 4 # 1
    /\ \A i \in 1..Len(s) : B64Val(s[i]) >= 0

----------------------------------------------------------------------------
(* Errors: a Go error value is a message and its formatted arguments;      *)
(* NoErr is the nil error.                                                 *)

Err(msg, args) == [msg |-> msg, args |-> args]
NoErr == Err("", <<>>)

errPrivateKeyTooSmall        == "private key is %d bits, should be at least %d bits."
errPrivateKeyUndefined       == "private key is undefined."
errUnsupportedEllipticCurve  == "unsupported elliptic curve."
errUnsupportedPrivateKeyType == "unsupported private key type."
errSessionBackingNotOpened   == "session backing has not been opened."
errSigningFailed             == "crypto: signing failed"

----------------------------------------------------------------------------
(* The signing key (private_key.go).                                       *)
(* A key value is described by its dynamic type and the bit lengths the    *)
(* code reads: N for RSA, P and Q for DSA, the curve and X for ECDSA.      *)

MinKeySizeDSA == 2048
MinKeySizeRSA == 2048

Key(type, name, N, P, Q, curve, X) ==
    [type |-> type, name |-> name, N |-> N, P |-> P, Q |-> Q, curve |-> curve, X |-> X]

\* the nil interface value
KeyNil == Key("nil", "nil", 0, 0, 0, "", 0)

RSAKeys ==
    { Key("RSA", "rsa1024", 1024, 0, 0, "", 0),
      Key("RSA", "rsa2048", 2048, 0, 0, "", 0),
      Key("RSA", "rsa8192", 8192, 0, 0, "", 0) }

DSAKeys ==
    { Key("DSA", "dsa1024-160", 0, 1024, 160, "", 0),
      Key("DSA", "dsa2048-256", 0, 2048, 256, "", 0),
      Key("DSA", "dsa3072-2048", 0, 3072, 2048, "", 0) }

ECDSAKeys ==
    { Key("ECDSA", "p256", 0, 0, 0, "P-256", 256),
      Key("ECDSA", "secp256k1", 0, 0, 0, "secp256k1", 256) }

\* every value a caller can hand to SetPrivateKey
Keys == RSAKeys \cup DSAKeys \cup ECDSAKeys
            \cup { Key("ed25519", "ed25519", 0, 0, 0, "", 0), KeyNil }

SupportedEllipticCurves == {"P-224", "P-256", "P-384", "P-521"}

PrivateKeyTypeToAlgorithm(type) ==
    IF type = "DSA" THEN "DS" ELSE IF type = "ECDSA" THEN "EC" ELSE "RS"

\* the ASCII bytes of the two-letter algorithm codes
AlgorithmBytes(alg) ==
    IF alg = "DS" THEN <<68, 83>> ELSE IF alg = "EC" THEN <<69, 67>> ELSE <<82, 83>>

\* a number of the key formatted with the given verb; the digits themselves
\* are the key's material and stay symbolic
Formatted(verb, k, field) == [verb |-> verb, key |-> k.name, field |-> field]

NoDoc == [Algorithm |-> ""]

PublicKeyDSA(k) ==
    [Algorithm |-> PrivateKeyTypeToAlgorithm("DSA"),
     G |-> Formatted("%02x", k, "G"), P |-> Formatted("%02x", k, "P"),
     Q |-> Formatted("%02x", k, "Q"), Y |-> Formatted("%02x", k, "Y")]

PublicKeyECDSA(k) ==
    [Algorithm |-> PrivateKeyTypeToAlgorithm("ECDSA"), Curve |-> k.curve,
     X |-> Formatted("String", k, "X"), Y |-> Formatted("String", k, "Y")]

PublicKeyRSA(k) ==
    [Algorithm |-> PrivateKeyTypeToAlgorithm("RSA"),
     N |-> Formatted("String", k, "N"), E |-> Formatted("%d", k, "E")]

\* a *PrivateKey: the nil pointer, or a pointer to a struct
NilPrivateKey == [nil |-> TRUE, key |-> KeyNil, supportDoc |-> NoDoc]
PrivateKeyStruct(key, doc) == [nil |-> FALSE, key |-> key, supportDoc |-> doc]

\* SetPrivateKey with the assignment made before the key is validated
SetPrivateKeyAssignFirst(key, old) ==
    IF key.type = "DSA" THEN
        IF key.Q < MinKeySizeDSA
        THEN [err |-> Err(errPrivateKeyTooSmall, <<key.Q, MinKeySizeDSA>>),
              privateKey |-> PrivateKeyStruct(key, NoDoc)]
        ELSE [err |-> NoErr, privateKey |-> PrivateKeyStruct(key, PublicKeyDSA(key))]
    ELSE IF key.type = "ECDSA" THEN
        IF key.curve \notin SupportedEllipticCurves
        THEN [err |-> Err(errUnsupportedEllipticCurve, <<>>),
              privateKey |-> PrivateKeyStruct(key, NoDoc)]
        ELSE [err |-> NoErr, privateKey |-> PrivateKeyStruct(key, PublicKeyECDSA(key))]
    ELSE IF key.type = "RSA" THEN
        IF key.N < MinKeySizeRSA
        THEN [err |-> Err(errPrivateKeyTooSmall, <<key.N, MinKeySizeRSA>>),
              privateKey |-> PrivateKeyStruct(key, NoDoc)]
        ELSE [err |-> NoErr, privateKey |-> PrivateKeyStruct(key, PublicKeyRSA(key))]
    ELSE [err |-> Err(errUnsupportedPrivateKeyType, <<>>),
          privateKey |-> PrivateKeyStruct(key, NoDoc)]

\* SetPrivateKey(key) called while the package variable holds old: the error
\* returned and the value of the package variable afterwards
SetPrivateKeyResult(key, old) ==
    IF key.type = "DSA" THEN
        IF key.Q < MinKeySizeDSA
        THEN [err |-> Err(errPrivateKeyTooSmall, <<key.Q, MinKeySizeDSA>>),
              privateKey |-> old]
        ELSE [err |-> NoErr, privateKey |-> PrivateKeyStruct(key, PublicKeyDSA(key))]
    ELSE IF key.type = "ECDSA" THEN
        IF key.curve \notin SupportedEllipticCurves
        THEN [err |-> Err(errUnsupportedEllipticCurve, <<>>), privateKey |-> old]
        ELSE [err |-> NoErr, privateKey |-> PrivateKeyStruct(key, PublicKeyECDSA(key))]
    ELSE IF key.type = "RSA" THEN
        IF key.N < MinKeySizeRSA
        THEN [err |-> Err(errPrivateKeyTooSmall, <<key.N, MinKeySizeRSA>>),
              privateKey |-> old]
        ELSE [err |-> NoErr, privateKey |-> PrivateKeyStruct(key, PublicKeyRSA(key))]
    ELSE [err |-> Err(errUnsupportedPrivateKeyType, <<>>), privateKey |-> old]

\* the outcome of a method call: it panicked, or it returned (val, err)
Panicked == [panic |-> TRUE, err |-> NoErr, val |-> <<>>]
Returned(val, err) == [panic |-> FALSE, err |-> err, val |-> val]

\* (pk *PrivateKey).SupportDoc(): reading pk.key through a nil pk is a nil
\* pointer dereference, a run-time panic
SupportDoc(pk) ==
    IF pk.nil THEN Panicked
    ELSE IF pk.key = KeyNil THEN Returned(NoDoc, Err(errPrivateKeyUndefined, <<>>))
    ELSE Returned(pk.supportDoc, NoErr)

\* (pk *PrivateKey).IdCertHeader(): the value is the bytes of header.Alg
IdCertHeader(pk) ==
    IF pk.nil THEN Panicked
    ELSE IF pk.key = KeyNil THEN Returned(<<>>, Err(errPrivateKeyUndefined, <<>>))
    ELSE IF pk.key.type = "DSA"
        THEN Returned(AlgorithmBytes(PrivateKeyTypeToAlgorithm("DSA")) \o Itoa(pk.key.Q \div 8), NoErr)
    ELSE IF pk.key.type = "ECDSA"
        THEN Returned(AlgorithmBytes(PrivateKeyTypeToAlgorithm("ECDSA")) \o Itoa(pk.key.X), NoErr)
    ELSE IF pk.key.type = "RSA"
        THEN Returned(AlgorithmBytes(PrivateKeyTypeToAlgorithm("RSA")) \o Itoa(pk.key.N \div 8), NoErr)
    ELSE Panicked

\* The bytes of a signature.  Their values are the output of the
\* cryptographic primitive and of crypto/rand; the model draws them from a
\* seed and keeps their number, which the key decides.
SigSeeds == {131}
SignatureBytes(len, seed) == [i \in 1..len |-> (seed + 7 * i) % 256]

\* the lengths r.Bytes() \o s.Bytes() can have for integers below 2^bits:
\* both of full length, or one a byte shorter (a leading zero byte dropped)
JoinedLengths(bits) ==
    LET n == (bits + 7) \div 8 IN {2 * n, 2 * n - 1}

CurveBits(curve) ==
    IF curve = "P-224" THEN 224
    ELSE IF curve = "P-256" THEN 256
    ELSE IF curve = "P-384" THEN 384 ELSE 521

\* the lengths a signature by key can have
SignatureLengths(key) ==
    IF key.type = "DSA" THEN JoinedLengths(key.Q)
    ELSE IF key.type = "ECDSA" THEN JoinedLengths(CurveBits(key.curve))
    ELSE {(key.N + 7) \div 8}

\* (pk *PrivateKey).Sign(data): rnd is what the randomized primitive drew,
\* [fail, len, seed]
Sign(pk, data, rnd) ==
    IF pk.nil THEN Panicked
    ELSE IF pk.key = KeyNil THEN Returned(<<>>, Err(errPrivateKeyUndefined, <<>>))
    ELSE IF pk.key.type \in {"DSA", "ECDSA", "RSA"} THEN
        IF rnd.fail THEN Returned(<<>>, Err(errSigningFailed, <<>>))
        ELSE Returned(SignatureBytes(rnd.len, rnd.seed), NoErr)
    ELSE Panicked

\* what crypto/rand and the primitive can do in one Sign by pk
SignDraws(pk) ==
    IF pk.nil THEN { [fail |-> TRUE, len |-> 0, seed |-> 0] }
    ELSE { [fail |-> TRUE, len |-> 0, seed |-> 0] }
            \cup { [fail |-> FALSE, len |-> l, seed |-> s] :
                    l \in SignatureLengths(pk.key), s \in SigSeeds }

----------------------------------------------------------------------------
(* package time: an instant is the seconds since the epoch and the         *)
(* nanoseconds within the second; a Duration is a number of nanoseconds.   *)

Second == 1000000000
Millisecond == 1000000

Instant(sec, nsec) == [sec |-> sec, nsec |-> nsec]

\* Time.Add(d) for a duration shorter than a second
TimeAdd(t, d) ==
    LET n == t.nsec + d
    IN  IF n < 0 THEN Instant(t.sec - 1, n + Second)
        ELSE IF n >= Second THEN Instant(t.sec + 1, n - Second)
        ELSE Instant(t.sec, n)

\* Time.Unix()
Unix(t) == t.sec

\* t is not after u
NotAfter(t, u) == t.sec < u.sec \/ (t.sec = u.sec /\ t.nsec <= u.nsec)

\* the instants the clock of the model shows
NsecPoints == {5, 999950000}
Instants == { Instant(s, n) : s \in 1..MaxSec, n \in NsecPoints }

----------------------------------------------------------------------------
(* The identity certificate (identity_certificate.go).                     *)

SessionMaxDuration == 86400
idCertExpMaxDuration == SessionMaxDuration
idCertIatFuzzDuration == -10

\* "timewasted.me"
Issuer == <<116, 105, 109, 101, 119, 97, 115, 116, 101, 100, 46, 109, 101>>

\* a JSON string of bytes that need no escaping
JsonString(s) == <<34>> \o s \o <<34>>

RECURSIVE JsonMembers(_)
\* "k":"v" members of a map[string]string, in key order, comma separated
JsonMembers(kv) ==
    IF kv = <<>> THEN <<>>
    ELSE JsonString(kv[1][1]) \o <<58>> \o JsonString(kv[1][2])
            \o (IF Len(kv) > 1 THEN <<44>> ELSE <<>>) \o JsonMembers(Tail(kv))

\* encoding/json of a map[string]string: null for the nil map
JsonMap(m) ==
    IF m.nil THEN <<110, 117, 108, 108>>
    ELSE <<123>> \o JsonMembers(m.kv) \o <<125>>

\* jsonEncoder.Encode(idCertHeader) writes {"alg":"<Alg>"} and a newline
JsonHeader(alg) ==
    <<123, 34, 97, 108, 103, 34, 58, 34>> \o alg \o <<34, 125>>

\* jsonEncoder.Encode(idCert): iat and exp carry the ",string" option
JsonIdCert(c) ==
    <<123, 34, 105, 97, 116, 34, 58>> \o JsonString(Itoa(c.Iat))
        \o <<44, 34, 101, 120, 112, 34, 58>> \o JsonString(Itoa(c.Exp))
        \o <<44, 34, 105, 115, 115, 34, 58>> \o JsonString(c.Iss)
        \o <<44, 34, 112, 117, 98, 108, 105, 99, 45, 107, 101, 121, 34, 58>>
        \o JsonMap(c.PublicKey)
        \o <<44, 34, 112, 114, 105, 110, 99, 105, 112, 97, 108, 34, 58,
             123, 34, 101, 109, 97, 105, 108, 34, 58>>
        \o JsonString(c.Email) \o <<125, 125>>

\* sha256 of the bytes m: a digest is identified by what was hashed
Sha256(m) == [sha256 |-> m]

\* the outcome of identityCertificate: cert and err are what the caller
\* gets; the other fields record what the function computed on the way
\* (the bytes it hashed, the signature Sign returned, the claims, the bytes
\* still inside the base64 encoder when cert was taken)
IdCertOutcome(panic, err, cert, hashed, sig, idCert, pending) ==
    [panic |-> panic, err |-> err, cert |-> cert, hashed |-> hashed,
     sig |-> sig, idCert |-> idCert, pending |-> pending]

NoIdCert == [Iat |-> 0, Exp |-> 0, Iss |-> <<>>, PublicKey |-> [nil |-> TRUE, kv |-> <<>>],
             Email |-> <<>>, Duration |-> 0]

\* The steps of identityCertificate, each taking what the steps before it
\* computed.

\* lines 100-114: the second '.', the signature through the base64 encoder
\* w3, and cert = output.String(), taken before the deferred
\* b64Encoder.Close() flushes w3.buf
IdCertAppendSignature(idCert, hashed, sig, w3) ==
    IdCertOutcome(FALSE, NoErr, w3.out, hashed, sig, idCert, w3.buf)

\* lines 95-104: the outcome of Sign decides
IdCertSigned(idCert, w2, sig) ==
    IF sig.panic THEN IdCertOutcome(TRUE, NoErr, <<>>, w2.out, <<>>, idCert, w2.buf)
    ELSE IF sig.err # NoErr
        THEN IdCertOutcome(FALSE, sig.err, <<>>, w2.out, <<>>, idCert, w2.buf)
    ELSE IdCertAppendSignature(idCert, w2.out, sig.val,
                               EncoderWrite(w2.buf, w2.out \o <<DOT>>, sig.val))

\* lines 84-95: the bytes in the output buffer are hashed and the digest
\* is signed
IdCertSign(pk, rnd, idCert, w2) ==
    IdCertSigned(idCert, w2, Sign(pk, Sha256(w2.out), rnd))

\* lines 63-82: the first '.', the claims through the same base64 encoder
IdCertClaims(req, pk, t1, t2, rnd, w1) ==
    LET duration == IF req.Duration > idCertExpMaxDuration
                        THEN idCertExpMaxDuration ELSE req.Duration
        idCert == [Iat |-> Unix(TimeAdd(t1, idCertIatFuzzDuration)) * Millisecond,
                   Exp |-> Unix(TimeAdd(t2, idCertExpMaxDuration)) * Millisecond,
                   Iss |-> Issuer,
                   PublicKey |-> req.PublicKey,
                   Email |-> req.Email,
                   Duration |-> duration]
    IN  IdCertSign(pk, rnd, idCert,
                   EncoderWrite(w1.buf, w1.out \o <<DOT>>, JsonIdCert(idCert) \o <<NEWLINE>>))

\* lines 55-62: the outcome of IdCertHeader decides; the header goes
\* through the base64 encoder
IdCertHeaderEncoded(req, pk, t1, t2, rnd, header) ==
    IF header.panic THEN IdCertOutcome(TRUE, NoErr, <<>>, <<>>, <<>>, NoIdCert, <<>>)
    ELSE IF header.err # NoErr
        THEN IdCertOutcome(FALSE, header.err, <<>>, <<>>, <<>>, NoIdCert, <<>>)
    ELSE IdCertClaims(req, pk, t1, t2, rnd,
                      EncoderWrite(<<>>, <<>>, JsonHeader(header.val) \o <<NEWLINE>>))

\* identityCertificate(req) with the package key pk; t1 and t2 are what the
\* two calls of time.Now() return, rnd what Sign draws
identityCertificate(req, pk, t1, t2, rnd) ==
    IdCertHeaderEncoded(req, pk, t1, t2, rnd, IdCertHeader(pk))

----------------------------------------------------------------------------
(* The SQLite session backing (session_sqlite.go).                         *)
(* A *sql.DB handle is the index of its entry in conns, 0 the nil handle;  *)
(* a *sql.Stmt is the handle of the connection it was prepared on, 0 nil.  *)

\* the database file that holds the sessions table, and a path that cannot
\* be opened
GoodLocation == "sessions.db"
BadLocation == "/nonexistent/sessions.db"
Locations == {GoodLocation, BadLocation}

errStorage == "sqlite3: storage failure"
errArgCount == "sql: expected %d arguments, got %d"
errUnique == "UNIQUE constraint failed: sessions.email_canonical"

ZeroBacking == [DB |-> 0, newSessionStmt |-> 0, hasSessionStmt |-> 0]

\* the number of ? placeholders of newSessionQuery
NewSessionNumInput == 4

\* a statement can run on connection c: the handle is open on a database
\* that exists
Usable(cs, c) == c # 0 /\ cs[c].open /\ cs[c].location = GoodLocation

Row(email, canonical, duration, created) ==
    [email |-> email, email_canonical |-> canonical, duration |-> duration,
     created_at |-> created]

\* rows that still count in the second they expire
LiveRowsInclusive(tbl, email, t) ==
    { r \in tbl : r.email_canonical = email /\ r.created_at + r.duration >= t.sec }

\* hasSessionQuery: the rows of the canonical email whose
\* created_at + duration is after the database's clock
LiveRows(tbl, email, t) ==
    { r \in tbl : r.email_canonical = email /\ r.created_at + r.duration > t.sec }

\* (b *SQLiteBacking) Open(location):
\* sql.Open returns a fresh handle, which is stored in b.DB whatever Ping
\* answers
OpenResult(bk, cs, location) ==
    [b |-> [bk EXCEPT !.DB = Len(cs) + 1],
     conns |-> Append(cs, [location |-> location, open |-> TRUE]),
     err |-> IF location = GoodLocation THEN NoErr ELSE Err(errStorage, <<>>)]

\* (b *SQLiteBacking) Close()
CloseResult(bk, cs) ==
    [b |-> ZeroBacking,
     conns |-> IF bk.DB # 0 THEN [cs EXCEPT ![bk.DB].open = FALSE] ELSE cs,
     err |-> NoErr]

\* newSessionStmt.Exec(args...): database/sql refuses a call whose number of
\* arguments is not the statement's number of placeholders; otherwise the
\* row is inserted unless email_canonical is already taken
StmtExec(tbl, t, args) ==
    IF Len(args) # NewSessionNumInput
    THEN [table |-> tbl, err |-> Err(errArgCount, <<NewSessionNumInput, Len(args)>>)]
    ELSE IF \E r \in tbl : r.email_canonical = args[2]
    THEN [table |-> tbl, err |-> Err(errUnique, <<>>)]
    ELSE [table |-> tbl \cup {Row(args[1], args[2], Min(args[3], args[4]), t.sec)},
          err |-> NoErr]

\* a NewSession that goes on without looking at b.DB
NewSessionWithoutOpenCheck(bk, cs, tbl, t, email, id, ioFail) ==
    [b |-> [bk EXCEPT !.newSessionStmt = bk.DB], table |-> tbl,
     err |-> Err(errStorage, <<>>)]

\* (b *SQLiteBacking) NewSession(email, id); ioFail: the storage fails
NewSessionResult(bk, cs, tbl, t, email, id, ioFail) ==
    IF bk.DB = 0
    THEN [b |-> bk, table |-> tbl, err |-> Err(errSessionBackingNotOpened, <<>>)]
    ELSE IF bk.newSessionStmt = 0 /\ (~Usable(cs, bk.DB) \/ ioFail)
    THEN [b |-> bk, table |-> tbl, err |-> Err(errStorage, <<>>)]
    ELSE
    LET stmt == IF bk.newSessionStmt = 0 THEN bk.DB ELSE bk.newSessionStmt
        bk2  == [bk EXCEPT !.newSessionStmt = stmt]
        exec == StmtExec(tbl, t, <<email, id>>)
    IN  IF ~Usable(cs, stmt) \/ ioFail
        THEN [b |-> bk2, table |-> tbl, err |-> Err(errStorage, <<>>)]
        ELSE [b |-> bk2, table |-> exec.table, err |-> exec.err]

\* (b *SQLiteBacking) HasSession(email); ioFail: the storage fails
HasSessionResult(bk, cs, tbl, t, email, ioFail) ==
    IF bk.DB = 0
    THEN [b |-> bk, hasSession |-> FALSE, err |-> Err(errSessionBackingNotOpened, <<>>)]
    ELSE IF bk.hasSessionStmt = 0 /\ (~Usable(cs, bk.DB) \/ ioFail)
    THEN [b |-> bk, hasSession |-> FALSE, err |-> Err(errStorage, <<>>)]
    ELSE
    LET stmt == IF bk.hasSessionStmt = 0 THEN bk.DB ELSE bk.hasSessionStmt
        bk2  == [bk EXCEPT !.hasSessionStmt = stmt]
    IN  IF ~Usable(cs, stmt) \/ ioFail
        THEN [b |-> bk2, hasSession |-> FALSE, err |-> Err(errStorage, <<>>)]
        ELSE IF LiveRows(tbl, email, t) # {}
        THEN [b |-> bk2, hasSession |-> TRUE, err |-> NoErr]
        ELSE [b |-> bk2, hasSession |-> FALSE, err |-> NoErr]

----------------------------------------------------------------------------
(* The support document (support_document.go).                             *)

\* json.Marshal of a SupportDocument / DelegatedSupportDocument, kept as the
\* members of the JSON object; NoJson is the nil slice
NoJson == [members |-> {}]
JsonSupportDocument(doc, authentication, provisioning) ==
    [members |-> {"public-key", "authentication", "provisioning"},
     publicKey |-> doc, authentication |-> authentication,
     provisioning |-> provisioning]
JsonDelegatedSupportDocument(host) ==
    [members |-> {"authority"}, authority |-> host]

\* GenerateSupportDocument(config): the outcome and the package variable
\* supportDocJson afterwards
GenerateSupportDocumentResult(config, pk, old) ==
    IF config.Delegate
    THEN [panic |-> FALSE, err |-> NoErr,
          supportDocJson |-> JsonDelegatedSupportDocument(config.Host)]
    ELSE LET doc == SupportDoc(pk)
         IN  IF doc.panic THEN [panic |-> TRUE, err |-> NoErr, supportDocJson |-> old]
             ELSE IF doc.err # NoErr
                THEN [panic |-> FALSE, err |-> doc.err, supportDocJson |-> old]
             ELSE [panic |-> FALSE, err |-> NoErr,
                   supportDocJson |->
                       JsonSupportDocument(doc.val, config.Authentication, config.Provisioning)]

\* the configurations of the model
Configs ==
    { [Delegate |-> d, Host |-> "idp.example", Authentication |-> "/auth",
       Provisioning |-> "/prov", SessionUrl |-> u, Store |-> st, Backing |-> loc] :
        d \in BOOLEAN, u \in {"", "/session"}, st \in {"sqlite", "redis"},
        loc \in Locations }

----------------------------------------------------------------------------
(* Inputs of the model.                                                    *)

\* "A@b", "a@b", "c@b"
Emails == { <<65, 64, 98>>, <<97, 64, 98>>, <<99, 64, 98>> }

\* the certificate requests of the model: durations below, at and above
\* the maximum, each email, with and without a public key
Request(email, publicKey, duration) ==
    [Email |-> email, PublicKey |-> publicKey, Duration |-> duration]

Requests ==
    { Request(<<65, 64, 98>>, [nil |-> TRUE, kv |-> <<>>], 100000),
      Request(<<97, 64, 98>>, [nil |-> FALSE, kv |-> << <<<<101>>, <<55>>>> >>], 0),
      Request(<<99, 64, 98>>, [nil |-> FALSE, kv |-> << <<<<101>>, <<55>>>> >>], -1),
      Request(<<99, 64, 98>>, [nil |-> TRUE, kv |-> <<>>], SessionMaxDuration) }

\* what the sessions table can hold when the program starts; created_at is
\* in seconds
InitTables ==
    { {},
      { Row(<<65, 64, 98>>, <<97, 64, 98>>, 1, 1),
        Row(<<99, 64, 98>>, <<99, 64, 98>>, SessionMaxDuration, 1) } }

\* the instants at or after t
Later(t) == { u \in Instants : NotAfter(t, u) }

\* what a second call of time.Now() can return when the first returned t:
\* the same instant, or the next one the clock shows
Soon(t) ==
    { u \in Later(t) : \A v \in Later(t) : NotAfter(v, t) \/ NotAfter(u, v) }

\* the HTTP requests a client can send to the certificate handler: a wrong
\* method, a body that is not the JSON of a request, or a request
CertificateRequests ==
    LET any == CHOOSE r \in Requests : TRUE
    IN  { [method |-> "GET", bodyOk |-> TRUE, req |-> any],
          [method |-> "POST", bodyOk |-> FALSE, req |-> any] }
        \cup { [method |-> "POST", bodyOk |-> TRUE, req |-> r] : r \in Requests }

\* the same for the session handler
SessionRequests ==
    LET any == CHOOSE e \in Emails : TRUE
    IN  { [method |-> "GET", bodyOk |-> TRUE, email |-> any],
          [method |-> "POST", bodyOk |-> FALSE, email |-> any] }
        \cup { [method |-> "POST", bodyOk |-> TRUE, email |-> e] : e \in Emails }

\* the goroutines that run calls at the same time (net/http serves each
\* request on a goroutine of its own), and the ones that serve certificate
\* requests
Goroutines == {1, 2}
Issuers == {1}

\* a goroutine between calls, with no result yet
NoRes == [op |-> "none"]
Idle == [pc |-> "idle", op |-> "none", arg |-> <<>>, loc |-> <<>>, res |-> NoRes]

----------------------------------------------------------------------------
(* The state machine.                                                      *)

Init ==
    /\ privateKey = NilPrivateKey
    /\ sessionBacking = "nil"
    /\ b = ZeroBacking
    /\ conns = <<>>
    /\ table \in InitTables
    /\ now = Instant(1, 5)
    /\ supportDocJson = NoJson
    /\ ret = [op |-> "init"]
    /\ calls = [g \in Goroutines |-> Idle]

\* time passes
Tick ==
    /\ \E u \in Later(now) \ {now} : now' = u
    /\ ret' = [op |-> "Tick"]
    /\ UNCHANGED <<privateKey, sessionBacking, b, conns, table, supportDocJson, calls>>

SetPrivateKey ==
    \E key \in Keys :
        LET r == SetPrivateKeyResult(key, privateKey)
        IN  /\ privateKey' = r.privateKey
            /\ ret' = [op |-> "SetPrivateKey", key |-> key, err |-> r.err]
            /\ UNCHANGED <<sessionBacking, b, conns, table, now, supportDocJson, calls>>

\* privateKey.SupportDoc()
CallSupportDoc ==
    /\ ret' = [op |-> "SupportDoc", out |-> SupportDoc(privateKey)]
    /\ UNCHANGED <<privateKey, sessionBacking, b, conns, table, now, supportDocJson, calls>>

\* privateKey.IdCertHeader()
CallIdCertHeader ==
    /\ ret' = [op |-> "IdCertHeader", out |-> IdCertHeader(privateKey)]
    /\ UNCHANGED <<privateKey, sessionBacking, b, conns, table, now, supportDocJson, calls>>

\* privateKey.Sign(data)
CallSign ==
    \E data \in {<<>>, <<1, 2, 3>>}, rnd \in SignDraws(privateKey) :
        /\ ret' = [op |-> "Sign", data |-> data, out |-> Sign(privateKey, data, rnd)]
        /\ UNCHANGED <<privateKey, sessionBacking, b, conns, table, now, supportDocJson, calls>>

GenerateSupportDocument ==
    \E config \in Configs :
        LET r == GenerateSupportDocumentResult(config, privateKey, supportDocJson)
        IN  /\ supportDocJson' = r.supportDocJson
            /\ ret' = [op |-> "GenerateSupportDocument", delegate |-> config.Delegate,
                       panic |-> r.panic, err |-> r.err,
                       doc |-> IF r.panic \/ r.err # NoErr THEN NoJson ELSE r.supportDocJson]
            /\ UNCHANGED <<privateKey, sessionBacking, b, conns, table, now, calls>>

\* net/http status codes
StatusOK == 200
StatusUnauthorized == 401
StatusMethodNotAllowed == 405
StatusInternalServerError == 500

\* BrowserID: the handler writes the package variable supportDocJson as it
\* is; any method but HEAD and GET is refused
BrowserID ==
    \E method \in {"GET", "HEAD", "POST"} :
        /\ ret' = IF method \notin {"HEAD", "GET"}
                    THEN [op |-> "BrowserID", method |-> method,
                          status |-> StatusMethodNotAllowed, body |-> NoJson]
                    ELSE [op |-> "BrowserID", method |-> method,
                          status |-> StatusOK, body |-> supportDocJson]
        /\ UNCHANGED <<privateKey, sessionBacking, b, conns, table, now, supportDocJson, calls>>

----------------------------------------------------------------------------
(* The session backing in use (session.go) and its validation (config.go). *)

\* SetSessionBacking(backing): nil, or the program's SQLiteBacking
SetSessionBacking ==
    \E backing \in {"nil", "sqlite"} :
        /\ sessionBacking' = backing
        /\ ret' = [op |-> "SetSessionBacking"]
        /\ UNCHANGED <<privateKey, b, conns, table, now, supportDocJson, calls>>

\* CloseSessionBacking()
CloseSessionBacking ==
    LET r == CloseResult(b, conns)
    IN  /\ IF sessionBacking # "nil"
            THEN b' = r.b /\ conns' = r.conns
            ELSE UNCHANGED <<b, conns>>
        /\ ret' = [op |-> "CloseSessionBacking"]
        /\ UNCHANGED <<privateKey, sessionBacking, table, now, supportDocJson, calls>>

errInvalidSessionUrl       == "session URL '%s' is invalid."
errUnsupportedSessionStore == "session store '%s' is not currently supported."

\* validateSession(config): a new SQLiteBacking is installed, then opened
ValidateSessionResult(config, sb, bk, cs) ==
    IF config.SessionUrl = ""
    THEN [sessionBacking |-> sb, b |-> bk, conns |-> cs,
          err |-> Err(errInvalidSessionUrl, <<config.SessionUrl>>)]
    ELSE IF sb # "nil"
    THEN [sessionBacking |-> sb, b |-> bk, conns |-> cs, err |-> NoErr]
    ELSE IF config.Store = "sqlite"
    THEN LET r == OpenResult(ZeroBacking, cs, config.Backing)
         IN  [sessionBacking |-> "sqlite", b |-> r.b, conns |-> r.conns, err |-> r.err]
    ELSE [sessionBacking |-> sb, b |-> bk, conns |-> cs,
          err |-> Err(errUnsupportedSessionStore, <<config.Store>>)]

ValidateSession ==
    \E config \in Configs :
        LET r == ValidateSessionResult(config, sessionBacking, b, conns)
        IN  /\ Len(r.conns) <= MaxOpens
            /\ sessionBacking' = r.sessionBacking
            /\ b' = r.b
            /\ conns' = r.conns
            /\ ret' = [op |-> "validateSession", config |-> config, err |-> r.err]
            /\ UNCHANGED <<privateKey, table, now, supportDocJson, calls>>

----------------------------------------------------------------------------
(* Calls of the SQLiteBacking methods.                                     *)

Open ==
    \E location \in Locations :
        LET r == OpenResult(b, conns, location)
        IN  /\ Len(conns) < MaxOpens
            /\ b' = r.b
            /\ conns' = r.conns
            /\ ret' = [op |-> "Open", location |-> location, err |-> r.err,
                       before |-> b]
            /\ UNCHANGED <<privateKey, sessionBacking, table, now, supportDocJson, calls>>

Close ==
    LET r == CloseResult(b, conns)
    IN  /\ b' = r.b
        /\ conns' = r.conns
        /\ ret' = [op |-> "Close", err |-> r.err, before |-> b]
        /\ UNCHANGED <<privateKey, sessionBacking, table, now, supportDocJson, calls>>

NewSession ==
    \E email \in Emails, ioFail \in BOOLEAN :
        LET r == NewSessionResult(b, conns, table, now, email, ToLower(email), ioFail)
        IN  /\ b' = r.b
            /\ table' = r.table
            /\ ret' = [op |-> "NewSession", email |-> email, err |-> r.err,
                       ioFail |-> ioFail, before |-> b, tableBefore |-> table]
            /\ UNCHANGED <<privateKey, sessionBacking, conns, now, supportDocJson, calls>>

HasSession ==
    \E email \in Emails, ioFail \in BOOLEAN :
        LET r == HasSessionResult(b, conns, table, now, email, ioFail)
        IN  /\ b' = r.b
            /\ ret' = [op |-> "HasSession", email |-> email, hasSession |-> r.hasSession,
                       err |-> r.err, ioFail |-> ioFail, before |-> b]
            /\ UNCHANGED <<privateKey, sessionBacking, conns, table, now, supportDocJson, calls>>

----------------------------------------------------------------------------
(* The HTTP handlers (persona.go).                                         *)

\* CheckSession: the status of the response and the backing afterwards;
\* bodyOk: the body could be read and is the JSON of a RequestCheckSession
CheckSessionResult(method, bodyOk, email, sb, bk, cs, tbl, t, ioFail) ==
    IF method # "POST" THEN [status |-> StatusMethodNotAllowed, b |-> bk, err |-> NoErr]
    ELSE IF sb = "nil" THEN [status |-> StatusInternalServerError, b |-> bk, err |-> NoErr]
    ELSE IF ~bodyOk THEN [status |-> StatusInternalServerError, b |-> bk, err |-> NoErr]
    ELSE LET r == HasSessionResult(bk, cs, tbl, t, email, ioFail)
         IN  IF ~r.hasSession
             THEN [status |-> StatusUnauthorized, b |-> r.b, err |-> r.err]
             ELSE [status |-> StatusOK, b |-> r.b, err |-> r.err]

CheckSession ==
    \E q \in SessionRequests, ioFail \in BOOLEAN :
        LET r == CheckSessionResult(q.method, q.bodyOk, q.email, sessionBacking, b, conns,
                                    table, now, ioFail)
        IN  /\ b' = r.b
            /\ ret' = [op |-> "CheckSession", method |-> q.method, bodyOk |-> q.bodyOk,
                       email |-> q.email, status |-> r.status, hasSessionErr |-> r.err,
                       ioFail |-> ioFail, before |-> b]
            /\ UNCHANGED <<privateKey, sessionBacking, conns, table, now, supportDocJson, calls>>

\* GenerateCertificate: the status and body of the response, or the panic
\* that ends the handler; ic is the outcome of identityCertificate, when
\* it was called
NotCalled == IdCertOutcome(FALSE, NoErr, <<>>, <<>>, <<>>, NoIdCert, <<>>)

\* lines 150-157: the response for the outcome ic of identityCertificate; a
\* panic ends the handler without a response (status 0)
GenerateCertificateResponse(ic) ==
    IF ic.panic THEN [status |-> 0, body |-> <<>>, called |-> TRUE, ic |-> ic]
    ELSE IF ic.err # NoErr
    THEN [status |-> StatusInternalServerError, body |-> <<>>, called |-> TRUE, ic |-> ic]
    ELSE [status |-> StatusOK, body |-> ic.cert, called |-> TRUE, ic |-> ic]

GenerateCertificateResult(method, bodyOk, req, sb, pk, t1, t2, rnd) ==
    IF method # "POST"
    THEN [status |-> StatusMethodNotAllowed, body |-> <<>>, called |-> FALSE, ic |-> NotCalled]
    ELSE IF sb = "nil"
    THEN [status |-> StatusInternalServerError, body |-> <<>>, called |-> FALSE, ic |-> NotCalled]
    ELSE IF ~bodyOk
    THEN [status |-> StatusInternalServerError, body |-> <<>>, called |-> FALSE, ic |-> NotCalled]
    ELSE GenerateCertificateResponse(identityCertificate(req, pk, t1, t2, rnd))

GenerateCertificate ==
    \E q \in CertificateRequests, t2 \in Soon(now), rnd \in SignDraws(privateKey) :
        \E r \in {GenerateCertificateResult(q.method, q.bodyOk, q.req, sessionBacking,
                                            privateKey, now, t2, rnd)} :
            /\ now' = t2
            /\ ret' = [op |-> "GenerateCertificate", method |-> q.method,
                       bodyOk |-> q.bodyOk, req |-> q.req, status |-> r.status,
                       body |-> r.body, called |-> r.called, ic |-> r.ic, t1 |-> now,
                       hadSession |->
                           HasSessionResult(b, conns, table, now, q.req.Email, FALSE).hasSession]
            /\ UNCHANGED <<privateKey, sessionBacking, b, conns, table, supportDocJson, calls>>

----------------------------------------------------------------------------
(* Calls that run at the same time.  No method of SQLiteBacking and no     *)
(* function of the package takes a lock, so a call is a sequence of steps, *)
(* one for each read or write of a shared variable, and the steps of       *)
(* different goroutines interleave.  A pc is the source line the goroutine *)
(* is about to run.                                                        *)

\* the goroutine is in a call, at pc; it has returned with res
InCall(op, pc, arg, loc) == [pc |-> pc, op |-> op, arg |-> arg, loc |-> loc, res |-> NoRes]
Done(res) == [pc |-> "idle", op |-> "none", arg |-> <<>>, loc |-> <<>>, res |-> res]

\* what a call of the backing came to: its results, whether it ended in a
\* nil pointer dereference, and whether its Prepare replaced a statement
\* that was already in the field
StoreRes(op, email, err, panic, hasSession, overwrote) ==
    [op |-> op, email |-> email, err |-> err, panic |-> panic,
     hasSession |-> hasSession, overwrote |-> overwrote]

\* NewSession lines 78-82: the check of b.DB
GoNewSession(g) ==
    /\ calls[g].pc = "idle"
    /\ \E email \in Emails :
        calls' = [calls EXCEPT ![g] =
            IF b.DB = 0
            THEN Done(StoreRes("NewSession", email,
                               Err(errSessionBackingNotOpened, <<>>), FALSE, FALSE, FALSE))
            ELSE InCall("NewSession", "83", email, [overwrote |-> FALSE])]
    /\ ret' = [op |-> "go"]
    /\ UNCHANGED <<privateKey, sessionBacking, b, conns, table, now, supportDocJson>>

\* NewSession line 83: the check of b.newSessionStmt
GoNewSessionStmt(g) ==
    /\ calls[g].op = "NewSession" /\ calls[g].pc = "83"
    /\ calls' = [calls EXCEPT ![g].pc = IF b.newSessionStmt = 0 THEN "84" ELSE "90"]
    /\ ret' = [op |-> "go"]
    /\ UNCHANGED <<privateKey, sessionBacking, b, conns, table, now, supportDocJson>>

\* NewSession lines 84-87: b.newSessionStmt, err = b.DB.Prepare(...); a nil
\* b.DB is a nil pointer dereference, and the field is assigned whatever
\* it holds by now
GoNewSessionPrepare(g) ==
    /\ calls[g].op = "NewSession" /\ calls[g].pc = "84"
    /\ IF b.DB = 0
       THEN /\ calls' = [calls EXCEPT ![g] =
                    Done(StoreRes("NewSession", calls[g].arg, NoErr, TRUE, FALSE, FALSE))]
            /\ b' = b
       ELSE IF ~Usable(conns, b.DB)
       THEN /\ calls' = [calls EXCEPT ![g] =
                    Done(StoreRes("NewSession", calls[g].arg, Err(errStorage, <<>>),
                                  FALSE, FALSE, b.newSessionStmt # 0))]
            /\ b' = [b EXCEPT !.newSessionStmt = 0]
       ELSE /\ calls' = [calls EXCEPT ![g] =
                    InCall("NewSession", "90", calls[g].arg,
                           [overwrote |-> b.newSessionStmt # 0])]
            /\ b' = [b EXCEPT !.newSessionStmt = b.DB]
    /\ ret' = [op |-> "go"]
    /\ UNCHANGED <<privateKey, sessionBacking, conns, table, now, supportDocJson>>

\* NewSession lines 90-104: b.newSessionStmt.Exec(email, id); a nil
\* statement is a nil pointer dereference
GoNewSessionExec(g) ==
    /\ calls[g].op = "NewSession" /\ calls[g].pc = "90"
    /\ LET email == calls[g].arg
           exec  == StmtExec(table, now, <<email, ToLower(email)>>)
           over  == calls[g].loc.overwrote
       IN  IF b.newSessionStmt = 0
           THEN /\ calls' = [calls EXCEPT ![g] =
                        Done(StoreRes("NewSession", email, NoErr, TRUE, FALSE, over))]
                /\ table' = table
           ELSE IF ~Usable(conns, b.newSessionStmt)
           THEN /\ calls' = [calls EXCEPT ![g] =
                        Done(StoreRes("NewSession", email, Err(errStorage, <<>>),
                                      FALSE, FALSE, over))]
                /\ table' = table
           ELSE /\ calls' = [calls EXCEPT ![g] =
                        Done(StoreRes("NewSession", email, exec.err, FALSE, FALSE, over))]
                /\ table' = exec.table
    /\ ret' = [op |-> "go"]
    /\ UNCHANGED <<privateKey, sessionBacking, b, conns, now, supportDocJson>>

\* HasSession lines 108-112: the check of b.DB
GoHasSession(g) ==
    /\ calls[g].pc = "idle"
    /\ \E email \in Emails :
        calls' = [calls EXCEPT ![g] =
            IF b.DB = 0
            THEN Done(StoreRes("HasSession", email,
                               Err(errSessionBackingNotOpened, <<>>), FALSE, FALSE, FALSE))
            ELSE InCall("HasSession", "113", email, [overwrote |-> FALSE])]
    /\ ret' = [op |-> "go"]
    /\ UNCHANGED <<privateKey, sessionBacking, b, conns, table, now, supportDocJson>>

\* HasSession line 113: the check of b.hasSessionStmt
GoHasSessionStmt(g) ==
    /\ calls[g].op = "HasSession" /\ calls[g].pc = "113"
    /\ calls' = [calls EXCEPT ![g].pc = IF b.hasSessionStmt = 0 THEN "114" ELSE "120"]
    /\ ret' = [op |-> "go"]
    /\ UNCHANGED <<privateKey, sessionBacking, b, conns, table, now, supportDocJson>>

\* HasSession lines 114-117: b.hasSessionStmt, err = b.DB.Prepare(...)
GoHasSessionPrepare(g) ==
    /\ calls[g].op = "HasSession" /\ calls[g].pc = "114"
    /\ IF b.DB = 0
       THEN /\ calls' = [calls EXCEPT ![g] =
                    Done(StoreRes("HasSession", calls[g].arg, NoErr, TRUE, FALSE, FALSE))]
            /\ b' = b
       ELSE IF ~Usable(conns, b.DB)
       THEN /\ calls' = [calls EXCEPT ![g] =
                    Done(StoreRes("HasSession", calls[g].arg, Err(errStorage, <<>>),
                                  FALSE, FALSE, b.hasSessionStmt # 0))]
            /\ b' = [b EXCEPT !.hasSessionStmt = 0]
       ELSE /\ calls' = [calls EXCEPT ![g] =
                    InCall("HasSession", "120", calls[g].arg,
                           [overwrote |-> b.hasSessionStmt # 0])]
            /\ b' = [b EXCEPT !.hasSessionStmt = b.DB]
    /\ ret' = [op |-> "go"]
    /\ UNCHANGED <<privateKey, sessionBacking, conns, table, now, supportDocJson>>

\* HasSession lines 120-128: b.hasSessionStmt.QueryRow(email).Scan(&id)
GoHasSessionQuery(g) ==
    /\ calls[g].op = "HasSession" /\ calls[g].pc = "120"
    /\ LET email == calls[g].arg
           over  == calls[g].loc.overwrote
       IN  calls' = [calls EXCEPT ![g] =
                IF b.hasSessionStmt = 0
                THEN Done(StoreRes("HasSession", email, NoErr, TRUE, FALSE, over))
                ELSE IF ~Usable(conns, b.hasSessionStmt)
                THEN Done(StoreRes("HasSession", email, Err(errStorage, <<>>),
                                   FALSE, FALSE, over))
                ELSE Done(StoreRes("HasSession", email, NoErr, FALSE,
                                   LiveRows(table, email, now) # {}, over))]
    /\ ret' = [op |-> "go"]
    /\ UNCHANGED <<privateKey, sessionBacking, b, conns, table, now, supportDocJson>>

\* Close lines 60-64: the handle is closed and the field set to nil
GoClose(g) ==
    /\ calls[g].pc = "idle"
    /\ calls' = [calls EXCEPT ![g] = InCall("Close", "65", <<>>, <<>>)]
    /\ conns' = IF b.DB # 0 THEN [conns EXCEPT ![b.DB].open = FALSE] ELSE conns
    /\ b' = [b EXCEPT !.DB = 0]
    /\ ret' = [op |-> "go"]
    /\ UNCHANGED <<privateKey, sessionBacking, table, now, supportDocJson>>

\* Close lines 65-68: b.newSessionStmt
GoCloseNewSessionStmt(g) ==
    /\ calls[g].op = "Close" /\ calls[g].pc = "65"
    /\ calls' = [calls EXCEPT ![g].pc = "69"]
    /\ b' = [b EXCEPT !.newSessionStmt = 0]
    /\ ret' = [op |-> "go"]
    /\ UNCHANGED <<privateKey, sessionBacking, conns, table, now, supportDocJson>>

\* Close lines 69-74: b.hasSessionStmt, and the return
GoCloseHasSessionStmt(g) ==
    /\ calls[g].op = "Close" /\ calls[g].pc = "69"
    /\ calls' = [calls EXCEPT ![g] =
            Done(StoreRes("Close", <<>>, NoErr, FALSE, FALSE, FALSE))]
    /\ b' = [b EXCEPT !.hasSessionStmt = 0]
    /\ ret' = [op |-> "go"]
    /\ UNCHANGED <<privateKey, sessionBacking, conns, table, now, supportDocJson>>

\* what identityCertificate came to, and the key privateKey pointed to when
\* the header was made and when the token was signed
IdCertRes(req, panic, err, issued, header, headerKey, sig, signKey) ==
    [op |-> "identityCertificate", req |-> req, panic |-> panic, err |-> err,
     issued |-> issued, header |-> header, headerKey |-> headerKey,
     sig |-> sig, signKey |-> signKey]

\* identityCertificate lines 49-62: privateKey.IdCertHeader() and its
\* encoding
GoIdentityCertificate(g) ==
    /\ calls[g].pc = "idle"
    /\ \E req \in Requests :
        LET header == IdCertHeader(privateKey)
        IN  calls' = [calls EXCEPT ![g] =
                IF header.panic \/ header.err # NoErr
                THEN Done(IdCertRes(req, header.panic, header.err, FALSE, <<>>,
                                    privateKey.key, <<>>, privateKey.key))
                ELSE InCall("identityCertificate", "63", req,
                            [header |-> header.val, headerKey |-> privateKey.key])]
    /\ ret' = [op |-> "go"]
    /\ UNCHANGED <<privateKey, sessionBacking, b, conns, table, now, supportDocJson>>

\* identityCertificate lines 63-115: the claims, then privateKey.Sign(...)
\* with the key privateKey points to by now, and the token
GoIdentityCertificateSign(g) ==
    /\ calls[g].op = "identityCertificate" /\ calls[g].pc = "63"
    /\ \E t2 \in Soon(now), rnd \in SignDraws(privateKey) :
        \E ic \in {IdCertClaims(calls[g].arg, privateKey, now, t2, rnd,
                                EncoderWrite(<<>>, <<>>,
                                    JsonHeader(calls[g].loc.header) \o <<NEWLINE>>))} :
            /\ calls' = [calls EXCEPT ![g] =
                    Done(IdCertRes(calls[g].arg, ic.panic, ic.err,
                                   ~ic.panic /\ ic.err = NoErr,
                                   calls[g].loc.header, calls[g].loc.headerKey,
                                   ic.sig, privateKey.key))]
            /\ now' = t2
    /\ ret' = [op |-> "go"]
    /\ UNCHANGED <<privateKey, sessionBacking, b, conns, table, supportDocJson>>

----------------------------------------------------------------------------
(* The specifications.                                                     *)

Next ==
    \/ Tick
    \/ SetPrivateKey
    \/ CallSupportDoc
    \/ CallIdCertHeader
    \/ CallSign
    \/ GenerateSupportDocument
    \/ BrowserID
    \/ SetSessionBacking
    \/ CloseSessionBacking
    \/ ValidateSession
    \/ Open
    \/ Close
    \/ NewSession
    \/ HasSession
    \/ CheckSession
    \/ GenerateCertificate
    \/ \E g \in Goroutines : GoNewSession(g)
    \/ \E g \in Goroutines : GoNewSessionStmt(g)
    \/ \E g \in Goroutines : GoNewSessionPrepare(g)
    \/ \E g \in Goroutines : GoNewSessionExec(g)
    \/ \E g \in Goroutines : GoHasSession(g)
    \/ \E g \in Goroutines : GoHasSessionStmt(g)
    \/ \E g \in Goroutines : GoHasSessionPrepare(g)
    \/ \E g \in Goroutines : GoHasSessionQuery(g)
    \/ \E g \in Goroutines : GoClose(g)
    \/ \E g \in Goroutines : GoCloseNewSessionStmt(g)
    \/ \E g \in Goroutines : GoCloseHasSessionStmt(g)
    \/ \E g \in Issuers : GoIdentityCertificate(g)
    \/ \E g \in Issuers : GoIdentityCertificateSign(g)

Spec == Init /\ [][Next]_vars

\* the signing key and the support document
NextKey ==
    \/ SetPrivateKey
    \/ CallSupportDoc
    \/ CallIdCertHeader
    \/ CallSign
    \/ GenerateSupportDocument
    \/ BrowserID

SpecKey == Init /\ [][NextKey]_vars

\* start-up (the key, the session backing) and the certificate handler
NextIssuer ==
    \/ Tick
    \/ SetPrivateKey
    \/ ValidateSession
    \/ GenerateCertificate

SpecIssuer == Init /\ [][NextIssuer]_vars

\* the session backing and the session handler
NextStore ==
    \/ Tick
    \/ SetSessionBacking
    \/ CloseSessionBacking
    \/ ValidateSession
    \/ Open
    \/ Close
    \/ NewSession
    \/ HasSession
    \/ CheckSession

SpecStore == Init /\ [][NextStore]_vars

\* the session backing under calls that run at the same time
NextConcurrentStore ==
    \/ Open
    \/ \E g \in Goroutines : GoNewSession(g)
    \/ \E g \in Goroutines : GoNewSessionStmt(g)
    \/ \E g \in Goroutines : GoNewSessionPrepare(g)
    \/ \E g \in Goroutines : GoNewSessionExec(g)
    \/ \E g \in Goroutines : GoHasSession(g)
    \/ \E g \in Goroutines : GoHasSessionStmt(g)
    \/ \E g \in Goroutines : GoHasSessionPrepare(g)
    \/ \E g \in Goroutines : GoHasSessionQuery(g)
    \/ \E g \in Goroutines : GoClose(g)
    \/ \E g \in Goroutines : GoCloseNewSessionStmt(g)
    \/ \E g \in Goroutines : GoCloseHasSessionStmt(g)

SpecConcurrentStore == Init /\ [][NextConcurrentStore]_vars

\* certificate requests served while the key is replaced
NextRotation ==
    \/ SetPrivateKey
    \/ \E g \in Issuers : GoIdentityCertificate(g)
    \/ \E g \in Issuers : GoIdentityCertificateSign(g)

SpecRotation == Init /\ [][NextRotation]_vars

----------------------------------------------------------------------------
(* Reading a compact token the way a relying party does.                   *)

DotPositions(tok) == { i \in 1..Len(tok) : tok[i] = DOT }

MinOf(S) == CHOOSE m \in S : \A n \in S : m <= n

RECURSIVE SplitFrom(_, _, _)
\* the '.'-delimited segments of tok from position from on
SplitFrom(tok, from, dots) ==
    IF dots = {} THEN << SubSeq(tok, from, Len(tok)) >>
    ELSE << SubSeq(tok, from, MinOf(dots) - 1) >>
            \o SplitFrom(tok, MinOf(dots) + 1, dots \ {MinOf(dots)})

Segments(tok) == SplitFrom(tok, 1, DotPositions(tok))

\* d is the JSON object {"alg":"<tag>"} with a non-empty tag of letters and
\* digits, alone or followed by the encoder's newline
IsHeaderObject(d) ==
    \E n \in {Len(d), Len(d) - 1} :
        /\ n >= 11
        /\ n = Len(d) \/ d[Len(d)] = NEWLINE
        /\ SubSeq(d, 1, 8) = <<123, 34, 97, 108, 103, 34, 58, 34>>
        /\ SubSeq(d, n - 1, n) = <<34, 125>>
        /\ \A i \in 9..(n - 2) :
              \/ d[i] >= 48 /\ d[i] <= 57
              \/ d[i] >= 65 /\ d[i] <= 90
              \/ d[i] >= 97 /\ d[i] <= 122

\* the last call was a certificate request answered 200 with a token
Issued == ret.op = "GenerateCertificate" /\ ret.status = StatusOK

\* an instant in the unit of the certificate's timestamps, milliseconds
UnixMilli(t) == t.sec * 1000 + (t.nsec \div Millisecond)

----------------------------------------------------------------------------
(* The claims.                                                             *)

\* C1: the certificate handler answers with a signed token for an email
\* only if HasSession(email) on the session backing in use is true when
\* the request is made.
C1_IssuanceGatedBySession ==
    Issued => ret.hadSession

\* C2: while the package key has never been set, SupportDoc, IdCertHeader,
\* Sign and GenerateSupportDocument (which calls SupportDoc) return the
\* "private key is undefined." error; none of them panics.
C2_UnsetKeyIsAnError ==
    privateKey.nil =>
        /\ ret.op \in {"SupportDoc", "IdCertHeader", "Sign"} =>
              ~ret.out.panic /\ ret.out.err = Err(errPrivateKeyUndefined, <<>>)
        /\ (ret.op = "GenerateSupportDocument" /\ ~ret.delegate) =>
              ~ret.panic /\ ret.err = Err(errPrivateKeyUndefined, <<>>)

\* the rows of tbl whose canonical email is the case folding of email
RowsOf(tbl, email) == { r \in tbl : r.email_canonical = ToLower(email) }

\* C3: NewSession on an open store with no prior row for the email succeeds
\* and persists exactly one row, whose duration is at most the maximum; and
\* after a NewSession that succeeded HasSession is true for every email that
\* differs from the created one only in letter case.
C3_CreateThenHasSessionAnyCase ==
    (/\ ret.op = "NewSession"
     /\ ~ret.ioFail
     /\ Usable(conns, ret.before.DB)
     /\ RowsOf(ret.tableBefore, ret.email) = {})
    =>  /\ ret.err = NoErr
        /\ Cardinality(RowsOf(table, ret.email)) = 1
        /\ \A r \in RowsOf(table, ret.email) : r.duration <= SessionMaxDuration
        /\ \A e2 \in Emails :
              ToLower(e2) = ToLower(ret.email) =>
                  HasSessionResult(b, conns, table, now, e2, FALSE).hasSession

\* the token's segments are three, each valid base64url, the first one
\* decoding to the header object
ThreeSegmentsHeaderFirst(segs) ==
    /\ Len(segs) = 3
    /\ \A i \in 1..Len(segs) : ValidBase64Url(segs[i])
    /\ IsHeaderObject(B64Decode(segs[1]))

\* C4: whatever key SetPrivateKey accepted, an issued token has exactly
\* three '.'-delimited segments, each valid base64url, and decoding the first
\* segment alone gives the complete header object {"alg": <non-empty tag>}.
C4_ThreeSegmentsCompleteHeader ==
    Issued => ThreeSegmentsHeaderFirst(Segments(ret.body))

\* the third segment is the signature and the signed bytes are the first
\* two segments as they stand in the token
SignatureSegmentExact(segs, ic) ==
    /\ Len(segs) = 3
    /\ B64Decode(segs[3]) = ic.sig
    /\ ic.hashed = segs[1] \o <<DOT>> \o segs[2]

\* C5: in an issued token the third segment is the base64url encoding of
\* exactly the signature bytes Sign returned, and that signature was made
\* over the SHA-256 digest of the token's first segment, '.', and second
\* segment.
C5_SignatureSegmentIsTheSignature ==
    Issued => SignatureSegmentExact(Segments(ret.body), ret.ic)

\* C6: the claims of an issued certificate satisfy
\* exp - iat = SessionMaxDuration seconds, in milliseconds, and iat <= now,
\* whatever duration was requested.
C6_ExpiryIsMaximumDuration ==
    Issued =>
        /\ ret.ic.idCert.Exp - ret.ic.idCert.Iat = SessionMaxDuration * 1000
        /\ ret.ic.idCert.Iat <= UnixMilli(ret.t1)

\* C7: SetPrivateKey accepts a DSA key if and only if the bit length of its
\* modulus P is at least 2048; an accepted key becomes the signing key and a
\* rejected one gets the key-too-small error.
C7_DSAAcceptedIffModulusLongEnough ==
    (ret.op = "SetPrivateKey" /\ ret.key.type = "DSA") =>
        /\ ret.err = NoErr <=> ret.key.P >= MinKeySizeDSA
        /\ ret.err = NoErr => ~privateKey.nil /\ privateKey.key = ret.key
        /\ ret.err # NoErr => ret.err.msg = errPrivateKeyTooSmall

\* C8: a SetPrivateKey that returns an error leaves the package key and its
\* cached public descriptor as they were: a key set before stays the key,
\* an unset key stays unset.
C8_FailedSetKeepsKey ==
    [][ (ret'.op = "SetPrivateKey" /\ ret'.err # NoErr) => privateKey' = privateKey ]_vars

\* a key was in place and a later SetPrivateKey was refused
C8_Witness ==
    /\ ret.op = "SetPrivateKey"
    /\ ret.err # NoErr
    /\ ~privateKey.nil
    /\ privateKey.key # ret.key

\* C9: the session handler answers 200 only when the user has a session,
\* 401 when HasSession reports none without an error, and 500 whenever an
\* error occurs, an error of HasSession included.
C9_CheckSessionStatuses ==
    ret.op = "CheckSession" =>
        /\ ret.hasSessionErr # NoErr => ret.status = StatusInternalServerError
        /\ ret.status = StatusUnauthorized => ret.hasSessionErr = NoErr
        /\ ret.status = StatusOK =>
              LiveRows(table, ret.email, now) # {}

\* C10: Open on a backing that is already open fails with an error and
\* leaves the connection and the prepared statements as they were.
C10_ReopenFailsFast ==
    (ret.op = "Open" /\ ret.before.DB # 0) =>
        /\ ret.err # NoErr
        /\ b = ret.before


\* C11, one step: a NewSession or HasSession that starts with no handle
\* (never opened, or closed since) returns the not-opened error, reports no
\* session and changes nothing; a Close of a store that was never opened
\* returns no error and changes nothing; every Close leaves no handle
C11_Step ==
    /\ (ret'.op \in {"NewSession", "HasSession"} /\ b.DB = 0) =>
            /\ ret'.err = Err(errSessionBackingNotOpened, <<>>)
            /\ (ret'.op = "HasSession" => ~ret'.hasSession)
            /\ b' = b /\ conns' = conns /\ table' = table
    /\ (ret'.op = "Close" /\ conns = <<>>) =>
            /\ ret'.err = NoErr
            /\ b' = b /\ conns' = conns /\ table' = table
    /\ (ret'.op = "Close") => b' = ZeroBacking
    /\ (b.DB = 0 /\ b'.DB # 0) => ret'.op \in {"Open", "validateSession"}

\* C11: in every sequence of Open, Close, NewSession and HasSession calls,
\* NewSession and HasSession on a store that is not open (never opened, or
\* closed since the last Open) return the "session backing has not been
\* opened" error, report no session and change nothing, and Close on a
\* never-opened store is a no-op that returns no error.
C11_NotOpenedIsAnError == (b.DB = 0) /\ [][C11_Step]_vars

\* a NewSession refused on a store that was opened and then closed
C11_Witness ==
    /\ ret.op = "NewSession"
    /\ ret.before.DB = 0
    /\ Len(conns) > 0
    /\ ret.err = Err(errSessionBackingNotOpened, <<>>)
    /\ table = ret.tableBefore

\* C12: on an open store whose storage answers, HasSession(email) returns
\* no error, and returns true exactly when the table holds a row of that
\* email with created_at + duration after the present second of the server
\* clock; a row that has expired counts as no row, though nothing deleted it.
C12_LiveIffNotExpired ==
    (ret.op = "HasSession" /\ Usable(conns, ret.before.DB) /\ ~ret.ioFail) =>
        /\ ret.err = NoErr
        /\ ret.hasSession <=>
              \E r \in table : /\ r.email_canonical = ret.email
                               /\ r.created_at + r.duration > Unix(now)

\* the session of "a@b", live when the clock started, is answered as not
\* live once the clock has passed its expiry, with its row still there
C12_Witness ==
    /\ ret.op = "HasSession"
    /\ Usable(conns, ret.before.DB) /\ ~ret.ioFail
    /\ ret.err = NoErr /\ ~ret.hasSession
    /\ \E r \in table : /\ r.email_canonical = ret.email
                        /\ r.created_at + r.duration > 1
                        /\ r.created_at + r.duration <= Unix(now)

\* C16: after an Open that returned an error the store is not open, so
\* NewSession and HasSession return the "session backing has not been
\* opened" error; and a validateSession that fails while opening the backing
\* leaves no session backing installed for a later validation to accept.
C16_FailedOpenLeavesStoreNotOpen ==
    /\ (/\ ret.op \in {"NewSession", "HasSession"}
        /\ ret.before.DB # 0
        /\ conns[ret.before.DB].location = BadLocation
        /\ ret.before.newSessionStmt = 0 /\ ret.before.hasSessionStmt = 0) =>
            ret.err = Err(errSessionBackingNotOpened, <<>>)
    /\ (ret.op = "validateSession" /\ ret.err = Err(errStorage, <<>>)) =>
            sessionBacking = "nil"

\* C17: the support document the BrowserID handler serves either carries
\* the public-key field, and then that field is the descriptor of the key
\* that signs certificates now, or is the delegated document, which has the
\* authority field and nothing else.
C17_ServedDocumentDescribesSigningKey ==
    (ret.op = "BrowserID" /\ ret.status = StatusOK /\ ret.body # NoJson) =>
        IF "public-key" \in ret.body.members
        THEN /\ "authority" \notin ret.body.members
             /\ ~privateKey.nil
             /\ ret.body.publicKey = SupportDoc(privateKey).val
        ELSE ret.body.members = {"authority"}

\* goroutine g has returned from a NewSession that ran its INSERT on an
\* open store
Created(g) ==
    /\ calls[g].pc = "idle"
    /\ calls[g].res.op = "NewSession"
    /\ ~calls[g].res.panic
    /\ calls[g].res.err \notin {Err(errSessionBackingNotOpened, <<>>), Err(errStorage, <<>>)}

\* C13: when two goroutines have each run NewSession for the same canonical
\* email on the open store, whatever the interleaving, the table holds
\* exactly one row of that canonical email and neither call returned the
\* violation of the UNIQUE constraint as its error.
C13_ConcurrentCreatesLeaveOneRow ==
    \A g \in Goroutines, h \in Goroutines :
        (/\ g # h
         /\ Created(g) /\ Created(h)
         /\ ToLower(calls[g].res.email) = ToLower(calls[h].res.email)) =>
            /\ Cardinality({ r \in table :
                    r.email_canonical = ToLower(calls[g].res.email) }) = 1
            /\ calls[g].res.err # Err(errUnique, <<>>)
            /\ calls[h].res.err # Err(errUnique, <<>>)

\* C14: under every interleaving of NewSession, HasSession and Close on one
\* SQLiteBacking, no lazy Prepare assigns a statement field that already
\* holds a statement (each statement is prepared at most once until the
\* next Close), and no call goes through b.DB or a statement field after a
\* Close set it to nil.
C14_StoreSerializesItsHandles ==
    \A g \in Goroutines :
        /\ (calls[g].op \in {"NewSession", "HasSession"} /\ calls[g].pc \in {"90", "120"}) =>
                ~calls[g].loc.overwrote
        /\ (calls[g].pc = "idle" /\ calls[g].res.op \in {"NewSession", "HasSession"}) =>
                ~calls[g].res.overwrote /\ ~calls[g].res.panic

\* C15: every token identityCertificate returns is made with one key: the
\* key privateKey pointed to when the header was written is the key that
\* signed, however a SetPrivateKey that succeeds is interleaved with the
\* call, so the algorithm tag of the header is the tag of the signing key.
C15_TokenFromOneKeySnapshot ==
    \A g \in Goroutines :
        (/\ calls[g].pc = "idle"
         /\ calls[g].res.op = "identityCertificate"
         /\ calls[g].res.issued) =>
            /\ calls[g].res.headerKey = calls[g].res.signKey
            /\ calls[g].res.header =
                    IdCertHeader(PrivateKeyStruct(calls[g].res.signKey, NoDoc)).val

====
